---- MODULE Spec2Model ----
(***************************************************************************)
(* The DEM part of LoadData-FullFrame_HyP3_v2: the tiles copied into the   *)
(* DEMs directory are listed, their CRS codes are tallied, the tiles not   *)
(* in the predominant code are reprojected with gdalwarp and removed, and  *)
(* the directory is merged with gdal_merge.py into DEM-Mosaic.tif, after   *)
(* which every merged path is removed.                                     *)
(*                                                                         *)
(* A path is a sequence of tokens (<<"DEMs", "/", "t1", ".tif">>): the     *)
(* string operations of the notebook (split on "/", the "r" prefix, the    *)
(* join and split on " ") act on token boundaries.  A CRS code is the      *)
(* string gdal.Info reports, a sequence of digits.                         *)
(***************************************************************************)
EXTENDS Integers, Sequences, FiniteSets, TLC

VARIABLES
    fs,                  \* the files of DEMs/: records [name, crs, content]
    pc,                  \* position of the run in the notebook
    DEM_paths,           \* list of paths returned by get_DEM_paths
    utm_zones,           \* CRS code of DEM_paths[i], as read by gdal.Info
    k,                   \* loop position (info loop, reproject loop, remove loop)
    predominant_utm,     \* the selected code, NoCode before the selection
    reproject_indicies,  \* indices of DEM_paths to reproject
    DEMin,               \* DEMin[0]: the paths joined by " ", or EmptyDict
    log,                 \* external invocations of the current run, in order
    error,               \* the exception that stopped the run, or "none"
    orig,                \* the tiles the first run started from
    restarts,            \* number of interruptions followed by a re-run
    toolFailed,          \* some gdalwarp / gdal_merge.py / gdal.Info call failed
    FullFrames,          \* the tile-derived files of the results directory
    DEMs_dir,            \* the directory DEMs/ exists
    rtc_products,        \* the directory rtc_products/ exists
    disk,                \* the candidate working directories: [exists, contents]
    disk0,               \* disk when the selection loop was entered
    data_dir,            \* the name entered at the last prompt
    choice,              \* the last answer of asfn.handle_old_data, 0 before any
    dpc                  \* position in the selection loop

cleanupVars == <<FullFrames, DEMs_dir, rtc_products>>

dirVars == <<disk, disk0, data_dir, choice, dpc>>

vars == <<fs, pc, DEM_paths, utm_zones, k, predominant_utm, reproject_indicies,
          DEMin, log, error, orig, restarts, toolFailed, cleanupVars, dirVars>>

----------------------------------------------------------------------------
(* Bounds *)

MaxTiles == 2
MaxRestarts == 1
MaxZones == 4
MaxSeqTiles == 3
MaxOldFiles == 2

----------------------------------------------------------------------------
(* Inputs *)

\* CRS codes as gdal.Info reports them (strings of digits)
Codes == { <<"3","2","6","4","4">>, <<"3","2","6","4","5">>, <<"4","3","2","6">> }

TileStems == <<"t1", "t2", "t3", "t4", "t5">>

DEMs == "DEMs"

TilePath(i) == <<DEMs, "/", TileStems[i], ".tif">>

TilePaths == { TilePath(i) : i \in 1..MaxTiles }

NoCode == <<>>
EmptyDict == <<"{}">>

Range(s) == { s[i] : i \in DOMAIN s }

Perms(S) == { p \in [1..Cardinality(S) -> S] : \A i, j \in 1..Cardinality(S) : p[i] = p[j] => i = j }

----------------------------------------------------------------------------
(* The file system *)

Names(dir) == { f.name : f \in dir }

path_exists(dir, pth) == pth \in Names(dir)

FileOf(dir, pth) == CHOOSE f \in dir : f.name = pth

Remove(dir, pth) == { f \in dir : f.name # pth }

\* glob.glob("DEMs/*.tif*"): every file of the directory whose name has the
\* .tif suffix, in the order the directory listing gives them
glob(dir) == { p \in Perms({ n \in Names(dir) : n[Len(n)] = ".tif" }) : TRUE }

get_DEM_paths(dir) == glob(dir)

----------------------------------------------------------------------------
(* String operations of the notebook, on token sequences *)

Digits == <<"0","1","2","3","4","5","6","7","8","9">>

Ord(c) == CHOOSE i \in DOMAIN Digits : Digits[i] = c

\* Python's < on strings: lexicographic, a proper prefix is smaller
RECURSIVE StrLess(_, _)
StrLess(a, b) ==
    IF a = <<>> THEN b # <<>>
    ELSE IF b = <<>> THEN FALSE
    ELSE IF Head(a) = Head(b) THEN StrLess(Tail(a), Tail(b))
    ELSE Ord(Head(a)) < Ord(Head(b))

\* str.split(sep): the pieces between the separators, empty pieces included
RECURSIVE split(_, _)
split(s, sep) ==
    IF \A i \in DOMAIN s : s[i] # sep THEN <<s>>
    ELSE LET i == CHOOSE j \in DOMAIN s : s[j] = sep /\ \A h \in 1..(j-1) : s[h] # sep
         IN  <<SubSeq(s, 1, i-1)>> \o split(SubSeq(s, i+1, Len(s)), sep)

\* str.strip(): leading and trailing blanks removed
RECURSIVE strip(_)
strip(s) ==
    IF s = <<>> THEN s
    ELSE IF Head(s) = " " THEN strip(Tail(s))
    ELSE IF s[Len(s)] = " " THEN strip(SubSeq(s, 1, Len(s)-1))
    ELSE s

----------------------------------------------------------------------------
(* Identifying the predominant UTM zone *)

\* np.unique(utm_zones, return_counts=True)[0]: the distinct codes, sorted
np_unique(zones) ==
    CHOOSE u \in Perms(Range(zones)) : \A i, j \in DOMAIN u : i < j => StrLess(u[i], u[j])

\* np.unique(utm_zones, return_counts=True)[1]
np_counts(zones) ==
    LET u == np_unique(zones)
    IN  [i \in DOMAIN u |-> Cardinality({ h \in DOMAIN zones : zones[h] = u[i] })]

\* mutant: the minimum instead of the maximum
np_max_min(c) == CHOOSE m \in Range(c) : \A x \in Range(c) : m <= x

np_max(c) == CHOOSE m \in Range(c) : \A x \in Range(c) : x <= m

\* np.where(counts == np.max(counts)): the matching indices, ascending
np_where_max(c) == SelectSeq([i \in DOMAIN c |-> i], LAMBDA i : c[i] = np_max(c))

\* the code whose running count first reaches the maximum count in a
\* left-to-right scan of the list
FirstToReachMax(zones) ==
    LET occ(c, n) == Cardinality({ h \in 1..n : zones[h] = c })
        m == CHOOSE x \in { occ(c, Len(zones)) : c \in Range(zones) } :
                 \A c \in Range(zones) : occ(c, Len(zones)) <= x
        i == CHOOSE j \in DOMAIN zones :
                 /\ occ(zones[j], j) = m
                 /\ \A h \in 1..(j-1) : occ(zones[h], h) # m
    IN  zones[i]

\* mutant: ties broken by scan order instead of by sorted order
select_predominant_scan(zones) == FirstToReachMax(zones)

\* utm_unique[a][0]
select_predominant(zones) == np_unique(zones)[np_where_max(np_counts(zones))[1]]

\* mutant: every tile is put on the list, the matching ones included
reproject_list_all(zones, predominant) == [i \in DOMAIN zones |-> i]

\* [i for i, j in enumerate(utm_zones) if j != predominant_utm]
reproject_list(zones, predominant) ==
    SelectSeq([i \in DOMAIN zones |-> i], LAMBDA i : zones[i] # predominant)

----------------------------------------------------------------------------
(* Paths built by the reproject and merge cell *)

\* {product_name}/{DEM_name}
warp_src(pth) ==
    LET parts == split(strip(pth), "/") IN parts[1] \o <<"/">> \o parts[2]

\* mutant: the output is written without the r prefix, over the source
warp_dst_same(pth) ==
    LET parts == split(strip(pth), "/") IN parts[1] \o <<"/">> \o parts[2]

\* {product_name}/r{DEM_name}
warp_dst(pth) ==
    LET parts == split(strip(pth), "/") IN parts[1] \o <<"/", "r">> \o parts[2]

\* the loop that builds DEMin[0] from d_paths
RECURSIVE join_paths(_)
join_paths(d_paths) ==
    IF Len(d_paths) = 0 THEN EmptyDict
    ELSE IF Len(d_paths) = 1 THEN d_paths[1]
    ELSE join_paths(SubSeq(d_paths, 1, Len(d_paths)-1)) \o <<" ">> \o d_paths[Len(d_paths)]

\* f"{DEMin[0].split('/')[0]}/DEM-Mosaic.tif"
mosaic_output(demin) == split(demin, "/")[1] \o <<"/", "DEM-Mosaic", ".tif">>

\* DEMin[0].split(' ')
merge_inputs(demin) == split(demin, " ")

MosaicPath == <<DEMs, "/", "DEM-Mosaic", ".tif">>

----------------------------------------------------------------------------
(* Effects of the external tools on the directory *)

\* mutant: the output keeps the code of the source
gdalwarp_keep(dir, src, dst, target) ==
    Remove(dir, dst) \cup
    { [name |-> dst, crs |-> FileOf(dir, src).crs, content |-> FileOf(dir, src).content] }

\* gdalwarp -overwrite src dst -s_srs ... -t_srs EPSG:target, when it succeeds
gdalwarp(dir, src, dst, target) ==
    Remove(dir, dst) \cup { [name |-> dst, crs |-> target, content |-> FileOf(dir, src).content] }

\* gdal_merge.py -o output inputs, when it succeeds: an existing output is
\* opened for update, a new one takes the projection of the first input
gdal_merge(dir, output, inputs) ==
    LET read == { FileOf(dir, inputs[i]) : i \in { h \in DOMAIN inputs : path_exists(dir, inputs[h]) } }
        old  == { f \in dir : f.name = output }
    IN  Remove(dir, output) \cup
        { [name    |-> output,
           crs     |-> IF old # {} THEN FileOf(dir, output).crs ELSE FileOf(dir, inputs[1]).crs,
           content |-> UNION { f.content : f \in read \cup old }] }

\* mutant: the merged files are left in place
os_remove_skip(dir, pth) == dir

\* if pth and asfn.path_exists(pth): os.remove(pth)
os_remove(dir, pth) == IF pth # <<>> /\ path_exists(dir, pth) THEN Remove(dir, pth) ELSE dir

Entry(op, pth, ok) == [op |-> op, path |-> pth, ok |-> ok]

----------------------------------------------------------------------------
(* The working-directory selection loop and the cleanup cell: state *)

DirNames == {"flood1", "flood2"}

OldFileNames == <<"old1", "old2", "old3", "old4">>

OldFiles == { OldFileNames[i] : i \in 1..MaxOldFiles }

Absent == [exists |-> FALSE, contents |-> {}]

Present(c) == [exists |-> TRUE, contents |-> c]

Disks == [DirNames -> {Absent} \cup { Present(c) : c \in SUBSET OldFiles }]

\* the loop has been left with a new, empty working directory
DirIdle ==
    /\ disk = [d \in DirNames |-> IF d = "flood1" THEN Present({}) ELSE Absent]
    /\ disk0 = [d \in DirNames |-> Absent]
    /\ data_dir = "flood1"
    /\ choice = 0
    /\ dpc = "exit"

\* asfn.new_directory("DEMs"), asfn.new_directory(rtc_path) and
\* asfn.new_directory("FullFrames") have run
CleanupInit ==
    /\ FullFrames = {}
    /\ DEMs_dir = TRUE
    /\ rtc_products = TRUE

----------------------------------------------------------------------------
(* The run *)

InitDirs ==
    UNION { { { [name |-> p, crs |-> c[p], content |-> {p}] : p \in S } : c \in [S -> Codes] }
            : S \in SUBSET TilePaths }

Fresh ==
    /\ pc = "discover"
    /\ DEM_paths = <<>>
    /\ utm_zones = <<>>
    /\ k = 0
    /\ predominant_utm = NoCode
    /\ reproject_indicies = <<>>
    /\ DEMin = EmptyDict
    /\ log = <<>>
    /\ error = "none"

Init ==
    /\ CleanupInit
    /\ DirIdle
    /\ fs \in InitDirs
    /\ orig = fs
    /\ restarts = 0
    /\ toolFailed = FALSE
    /\ Fresh

\* DEM_paths = get_DEM_paths(DEM_pth)
Discover ==
    /\ pc = "discover"
    /\ \E p \in get_DEM_paths(fs) :
         /\ DEM_paths' = p
         /\ pc' = IF Len(p) = 0 THEN "select" ELSE "info"
    /\ utm_zones' = <<>>
    /\ k' = 1
    /\ UNCHANGED <<fs, predominant_utm, reproject_indicies, DEMin, log, error, orig,
                   restarts, toolFailed>>
    /\ UNCHANGED <<cleanupVars, dirVars>>

\* one pass of the gdal.Info loop; gdal.Info returns None for a file it
\* cannot open, and subscripting None raises TypeError
Info ==
    /\ pc = "info"
    /\ \E ok \in BOOLEAN :
         /\ log' = Append(log, Entry("gdal.Info", DEM_paths[k], ok))
         /\ IF ok
            THEN /\ utm_zones' = Append(utm_zones, FileOf(fs, DEM_paths[k]).crs)
                 /\ k' = k + 1
                 /\ pc' = IF k = Len(DEM_paths) THEN "select" ELSE "info"
                 /\ UNCHANGED <<error, toolFailed>>
            ELSE /\ error' = "TypeError"
                 /\ pc' = "aborted"
                 /\ toolFailed' = TRUE
                 /\ UNCHANGED <<utm_zones, k>>
    /\ UNCHANGED <<fs, DEM_paths, predominant_utm, reproject_indicies, DEMin, orig, restarts>>
    /\ UNCHANGED <<cleanupVars, dirVars>>

\* mutant: an empty list is not an error, the run goes on without a code
Select_silent ==
    /\ pc = "select"
    /\ predominant_utm' = IF utm_zones = <<>> THEN NoCode ELSE select_predominant(utm_zones)
    /\ pc' = "reproject"
    /\ UNCHANGED <<fs, DEM_paths, utm_zones, k, reproject_indicies, DEMin, log, error, orig,
                   restarts, toolFailed>>
    /\ UNCHANGED <<cleanupVars, dirVars>>

\* np.unique / np.where / utm_unique[a][0]; np.max of an empty array raises
\* ValueError
Select ==
    /\ pc = "select"
    /\ IF utm_zones = <<>>
       THEN /\ error' = "ValueError"
            /\ pc' = "aborted"
            /\ UNCHANGED predominant_utm
       ELSE /\ predominant_utm' = select_predominant(utm_zones)
            /\ pc' = "reproject"
            /\ UNCHANGED error
    /\ UNCHANGED <<fs, DEM_paths, utm_zones, k, reproject_indicies, DEMin, log, orig,
                   restarts, toolFailed>>
    /\ UNCHANGED <<cleanupVars, dirVars>>

\* reproject_indicies = [...]
Reproject ==
    /\ pc = "reproject"
    /\ reproject_indicies' = reproject_list(utm_zones, predominant_utm)
    /\ k' = 1
    /\ pc' = IF reproject_indicies' = <<>> THEN "update" ELSE "gdalwarp"
    /\ UNCHANGED <<fs, DEM_paths, utm_zones, predominant_utm, DEMin, log, error, orig,
                   restarts, toolFailed>>
    /\ UNCHANGED <<cleanupVars, dirVars>>

\* !{cmd}: the exit status of gdalwarp is not looked at
GdalWarp ==
    /\ pc = "gdalwarp"
    /\ LET pth == DEM_paths[reproject_indicies[k]]
       IN  \E ok \in (IF path_exists(fs, warp_src(pth)) THEN BOOLEAN ELSE {FALSE}) :
             /\ fs' = IF ok THEN gdalwarp(fs, warp_src(pth), warp_dst(pth), predominant_utm)
                      ELSE fs
             /\ log' = Append(log, Entry("gdalwarp", warp_src(pth), ok))
             /\ toolFailed' = (toolFailed \/ ~ok)
    /\ pc' = "rm"
    /\ UNCHANGED <<DEM_paths, utm_zones, k, predominant_utm, reproject_indicies, DEMin,
                   error, orig, restarts>>
    /\ UNCHANGED <<cleanupVars, dirVars>>

\* mutant: the loop is left after the first tile
Rm_once ==
    /\ pc = "rm"
    /\ LET pth == strip(DEM_paths[reproject_indicies[k]])
       IN  /\ fs' = Remove(fs, pth)
           /\ log' = Append(log, Entry("rm", pth, path_exists(fs, pth)))
    /\ k' = k + 1
    /\ pc' = "update"
    /\ UNCHANGED <<DEM_paths, utm_zones, predominant_utm, reproject_indicies, DEMin,
                   error, orig, restarts, toolFailed>>
    /\ UNCHANGED <<cleanupVars, dirVars>>

\* !{rm_command}
Rm ==
    /\ pc = "rm"
    /\ LET pth == strip(DEM_paths[reproject_indicies[k]])
       IN  /\ fs' = Remove(fs, pth)
           /\ log' = Append(log, Entry("rm", pth, path_exists(fs, pth)))
    /\ k' = k + 1
    /\ pc' = IF k = Len(reproject_indicies) THEN "update" ELSE "gdalwarp"
    /\ UNCHANGED <<DEM_paths, utm_zones, predominant_utm, reproject_indicies, DEMin,
                   error, orig, restarts, toolFailed>>
    /\ UNCHANGED <<cleanupVars, dirVars>>

\* DEM_paths = get_DEM_paths(DEM_pth); d_paths = get_DEM_paths(DEM_pth) and
\* the loop that joins d_paths into DEMin[0]
Update ==
    /\ pc = "update"
    /\ \E p \in get_DEM_paths(fs) :
         /\ DEM_paths' = p
         /\ DEMin' = join_paths(p)
    /\ pc' = "merge"
    /\ UNCHANGED <<fs, utm_zones, k, predominant_utm, reproject_indicies, log, error,
                   orig, restarts, toolFailed>>
    /\ UNCHANGED <<cleanupVars, dirVars>>

\* output = ...; !{gdal_command}: the exit status is not looked at.
\* DEMin[0] is still the dict {} when d_paths was empty: .split raises
GdalMerge ==
    /\ pc = "merge"
    /\ IF DEMin = EmptyDict
       THEN /\ error' = "AttributeError"
            /\ pc' = "aborted"
            /\ UNCHANGED <<fs, k, log, toolFailed>>
       ELSE /\ \E ok \in BOOLEAN :
                 /\ fs' = IF ok THEN gdal_merge(fs, mosaic_output(DEMin), merge_inputs(DEMin))
                          ELSE fs
                 /\ log' = Append(log, Entry("gdal_merge.py", mosaic_output(DEMin), ok))
                 /\ toolFailed' = (toolFailed \/ ~ok)
            /\ k' = 1
            /\ pc' = "remove"
            /\ UNCHANGED error
    /\ UNCHANGED <<DEM_paths, utm_zones, predominant_utm, reproject_indicies, DEMin, orig,
                   restarts>>
    /\ UNCHANGED <<cleanupVars, dirVars>>

\* one pass of: for pth in DEMin[0].split(' ')
OsRemove ==
    /\ pc = "remove"
    /\ LET pth == merge_inputs(DEMin)[k]
       IN  /\ fs' = os_remove(fs, pth)
           /\ log' = IF fs' # fs THEN Append(log, Entry("os.remove", pth, TRUE)) ELSE log
    /\ k' = k + 1
    /\ pc' = IF k = Len(merge_inputs(DEMin)) THEN "done" ELSE "remove"
    /\ UNCHANGED <<DEM_paths, utm_zones, predominant_utm, reproject_indicies, DEMin,
                   error, orig, restarts, toolFailed>>
    /\ UNCHANGED <<cleanupVars, dirVars>>

\* the run is interrupted between two steps and the cells are run again from
\* tile discovery: the kernel state is rebuilt, the directory is what it is
Restart ==
    /\ pc \in {"info", "select", "reproject", "gdalwarp", "rm", "update", "merge", "remove"}
    /\ restarts < MaxRestarts
    /\ restarts' = restarts + 1
    /\ pc' = "discover"
    /\ DEM_paths' = <<>>
    /\ utm_zones' = <<>>
    /\ k' = 0
    /\ predominant_utm' = NoCode
    /\ reproject_indicies' = <<>>
    /\ DEMin' = EmptyDict
    /\ log' = <<>>
    /\ error' = "none"
    /\ UNCHANGED <<fs, orig, toolFailed>>
    /\ UNCHANGED <<cleanupVars, dirVars>>

\* cp src FullFrames/: the copy keeps the file name of the source
cp_to_FullFrames(ff, dir, src) ==
    LET dst == <<"FullFrames", "/">> \o split(src, "/")[2]
    IN  Remove(ff, dst) \cup
        { [name |-> dst, crs |-> FileOf(dir, src).crs, content |-> FileOf(dir, src).content] }

\* !{demcopy}: the exit status of cp is not looked at
CopyMosaic ==
    /\ pc = "done"
    /\ \E ok \in (IF path_exists(fs, MosaicPath) THEN BOOLEAN ELSE {FALSE}) :
         /\ FullFrames' = IF ok THEN cp_to_FullFrames(FullFrames, fs, MosaicPath) ELSE FullFrames
         /\ log' = Append(log, Entry("cp", MosaicPath, ok))
    /\ pc' = "rm_DEMs"
    /\ UNCHANGED <<fs, DEM_paths, utm_zones, k, predominant_utm, reproject_indicies, DEMin,
                   error, orig, restarts, toolFailed, DEMs_dir, rtc_products, dirVars>>

\* !rm -r DEMs/
RmDEMs ==
    /\ pc = "rm_DEMs"
    /\ fs' = {}
    /\ DEMs_dir' = FALSE
    /\ log' = Append(log, Entry("rm -r", <<DEMs, "/">>, TRUE))
    /\ pc' = "rm_rtc_products"
    /\ UNCHANGED <<DEM_paths, utm_zones, k, predominant_utm, reproject_indicies, DEMin,
                   error, orig, restarts, toolFailed, FullFrames, rtc_products, dirVars>>

\* !rm -r rtc_products/
RmRtcProducts ==
    /\ pc = "rm_rtc_products"
    /\ rtc_products' = FALSE
    /\ log' = Append(log, Entry("rm -r", <<"rtc_products", "/">>, TRUE))
    /\ pc' = "cleaned"
    /\ UNCHANGED <<fs, DEM_paths, utm_zones, k, predominant_utm, reproject_indicies, DEMin,
                   error, orig, restarts, toolFailed, FullFrames, DEMs_dir, dirVars>>

Next ==
    \/ CopyMosaic
    \/ RmDEMs
    \/ RmRtcProducts
    \/ Discover
    \/ Info
    \/ Select
    \/ Reproject
    \/ GdalWarp
    \/ Rm
    \/ Update
    \/ GdalMerge
    \/ OsRemove
    \/ Restart

Spec == Init /\ [][Next]_vars

----------------------------------------------------------------------------
(* The selection alone, applied to every list of at most MaxZones codes *)

ZoneLists == UNION { [1..n -> Codes] : n \in 0..MaxZones }

InitSel ==
    /\ CleanupInit
    /\ DirIdle
    /\ utm_zones \in ZoneLists
    /\ DEM_paths = [i \in DOMAIN utm_zones |-> TilePath(i)]
    /\ fs = { [name |-> TilePath(i), crs |-> utm_zones[i], content |-> {TilePath(i)}]
              : i \in DOMAIN utm_zones }
    /\ orig = fs
    /\ pc = "select"
    /\ k = Len(utm_zones) + 1
    /\ predominant_utm = NoCode
    /\ reproject_indicies = <<>>
    /\ DEMin = EmptyDict
    /\ log = [i \in DOMAIN utm_zones |-> Entry("gdal.Info", TilePath(i), TRUE)]
    /\ error = "none"
    /\ restarts = 0
    /\ toolFailed = FALSE

NextSel == Select

SpecSel == InitSel /\ [][NextSel]_vars

----------------------------------------------------------------------------
(* Properties of the selection *)

Occurrences(zones, c) == Cardinality({ i \in DOMAIN zones : zones[i] = c })

MaxOccurring(zones) ==
    { c \in Range(zones) : \A d \in Range(zones) : Occurrences(zones, d) <= Occurrences(zones, c) }

Selected == pc \notin {"discover", "info", "select", "aborted"}

\* C1: for a non-empty list of tiles the selected code occurs in the input and
\* no other code has a strictly greater count; when all tiles share one code,
\* that code is selected.
C1_PredominantIsMaximal ==
    Selected =>
        /\ predominant_utm \in Range(utm_zones)
        /\ \A c \in Range(utm_zones) :
               Occurrences(utm_zones, c) <= Occurrences(utm_zones, predominant_utm)
        /\ (\A i \in DOMAIN utm_zones : utm_zones[i] = utm_zones[1]) => predominant_utm = utm_zones[1]

C1_Witness ==
    /\ Selected
    /\ Len(utm_zones) = 3
    /\ Cardinality(Range(utm_zones)) = 2
    /\ predominant_utm # utm_zones[1]
    /\ Occurrences(utm_zones, predominant_utm) = 2

\* C2 as stated: among the codes tied for the maximum count the selection
\* returns the one that first reaches that count in a left-to-right scan.
C2_Original_FirstInScanOrder ==
    Selected => predominant_utm = FirstToReachMax(utm_zones)

\* C2 as amended: among the codes tied for the maximum count the selection
\* returns the one that sorts first as a string (np.unique order), whatever
\* the order of the tiles.
C2_TieBrokenBySortedOrder ==
    Selected =>
        /\ predominant_utm \in MaxOccurring(utm_zones)
        /\ \A c \in MaxOccurring(utm_zones) : c = predominant_utm \/ StrLess(predominant_utm, c)

\* the list [B, A, B, A] with A sorting before B: A is selected
C2_Witness ==
    /\ Selected
    /\ Len(utm_zones) = 4
    /\ utm_zones[1] = utm_zones[3]
    /\ utm_zones[2] = utm_zones[4]
    /\ StrLess(utm_zones[2], utm_zones[1])
    /\ predominant_utm = utm_zones[2]

----------------------------------------------------------------------------
(* Properties of the reproject and mosaic cell *)

IsEntry(i, op) == i \in DOMAIN log /\ log[i].op = op

\* the path gdalwarp writes for the tile at path p: same directory, name
\* prefixed with r
RPath(p) == <<p[1], p[2], "r">> \o SubSeq(p, 3, Len(p))

\* the reprojection of log[i].path has completed: gdalwarp succeeded and the
\* rm of the same iteration has run
Reprojected(i) ==
    /\ IsEntry(i, "gdalwarp")
    /\ log[i].ok
    /\ IsEntry(i + 1, "rm")

BeforeMerge == pc \in {"gdalwarp", "rm", "update", "merge"}

\* C3: after a reprojection whose transform failed and wrote nothing, the
\* original tile file still exists and no new file was created.
C3_FailedReprojectionKeepsOriginal ==
    BeforeMerge =>
        \A i \in DOMAIN log :
            (IsEntry(i, "gdalwarp") /\ ~log[i].ok) =>
                /\ path_exists(fs, log[i].path)
                /\ restarts = 0 => ~path_exists(fs, RPath(log[i].path))

\* C4: a tile passed to merge has been removed only if the mosaic file exists.
C4_InputsRemovedOnlyWithMosaic ==
    (\E i \in DOMAIN log : IsEntry(i, "os.remove") /\ log[i].path # MosaicPath) =>
        path_exists(fs, MosaicPath)

\* C5: once a metadata lookup or a reprojection has failed, no later tile is
\* reprojected or deleted and merge is not invoked in that run.
C5_AbortOnFirstFailure ==
    \A i, j \in DOMAIN log :
        (i < j /\ log[i].op \in {"gdal.Info", "gdalwarp"} /\ ~log[i].ok) =>
            (log[j].op = "rm" /\ log[j].path = log[i].path)

\* C6: after a successful reprojection of a tile whose code differs from the
\* predominant one, the original file no longer exists and the file of the
\* same directory named r + name exists and carries the predominant code.
C6_ReprojectedReplacesOriginal ==
    BeforeMerge =>
        \A i \in DOMAIN log :
            Reprojected(i) =>
                /\ ~path_exists(fs, log[i].path)
                /\ \E f \in fs : f.name = RPath(log[i].path) /\ f.crs = predominant_utm

C6_Witness ==
    /\ pc = "update"
    /\ \E i \in DOMAIN log : Reprojected(i)
    /\ \E f \in fs : f.crs = predominant_utm /\ f.name \in Names(orig)

\* C7: a tile whose code equals the predominant one is left alone by the
\* reprojection phase: gdalwarp and rm are not run on it and the file is
\* still there, unchanged, when merge is reached.  (log[i] for i up to
\* Len(utm_zones) is the gdal.Info call on the i-th listed tile.)
C7_MatchingTileUntouched ==
    BeforeMerge =>
        \A i \in DOMAIN utm_zones :
            utm_zones[i] = predominant_utm =>
                /\ \E f \in fs : f.name = log[i].path /\ f.crs = utm_zones[i]
                /\ \A j \in DOMAIN log : log[j].op \in {"gdalwarp", "rm"} => log[j].path # log[i].path
                /\ restarts = 0 => \E f \in fs \cap orig : f.name = log[i].path

C7_Witness ==
    /\ pc = "merge"
    /\ \E i \in DOMAIN log : Reprojected(i)
    /\ \E i \in DOMAIN utm_zones : utm_zones[i] = predominant_utm /\ path_exists(fs, log[i].path)

\* C8: after a run over a non-empty tile set in which every reprojection and
\* the merge succeeded, the directory holds exactly one file, DEM-Mosaic.tif;
\* merge ran once and every file it read has been removed.
C8_OnlyMosaicRemains ==
    (pc = "done" /\ restarts = 0 /\ ~toolFailed /\ orig # {}) =>
        /\ Names(fs) = {MosaicPath}
        /\ Cardinality({ i \in DOMAIN log : IsEntry(i, "gdal_merge.py") }) = 1
        /\ \A f \in fs : f.content = Names(orig)

C8_Witness ==
    /\ pc = "done"
    /\ restarts = 0
    /\ ~toolFailed
    /\ Cardinality(orig) >= 2
    /\ \E i \in DOMAIN log : Reprojected(i)
    /\ \E i \in DOMAIN log : IsEntry(i, "os.remove") /\ log[i].path \in Names(orig)
    /\ Names(fs) = {MosaicPath}

\* C9: with an empty tile list the selection stops the run with an error
\* (numpy's ValueError) instead of returning a code, and nothing is
\* reprojected, merged or deleted.
C9_EmptyListFails ==
    (pc \notin {"discover", "select"} /\ DEM_paths = <<>>) =>
        /\ pc = "aborted"
        /\ error = "ValueError"
        /\ predominant_utm = NoCode
        /\ log = <<>>
        /\ fs = {}

C9_Witness ==
    /\ pc = "aborted"
    /\ DEM_paths = <<>>
    /\ error = "ValueError"

OrigZones == { f.crs : f \in orig }

OrigCount(c) == Cardinality({ f \in orig : f.crs = c })

\* the code an uninterrupted run selects on the original tiles
OrigPredominant ==
    CHOOSE c \in OrigZones :
        /\ \A d \in OrigZones : OrigCount(d) <= OrigCount(c)
        /\ \A d \in OrigZones : OrigCount(d) = OrigCount(c) => (d = c \/ StrLess(c, d))

\* C10: a run interrupted between two steps and re-run from tile discovery
\* ends as the uninterrupted run does: one mosaic holding every original
\* tile, in the originally predominant code, and nothing else.
C10_RestartIdempotent ==
    (pc = "done" /\ ~toolFailed /\ orig # {}) =>
        fs = { [name |-> MosaicPath, crs |-> OrigPredominant, content |-> Names(orig)] }

----------------------------------------------------------------------------
(* One uninterrupted run over up to MaxSeqTiles tiles *)

SeqDirs ==
    UNION { { { [name |-> TilePath(i), crs |-> c[i], content |-> {TilePath(i)}] : i \in 1..n }
              : c \in [1..n -> Codes] } : n \in 0..MaxSeqTiles }

InitSeq ==
    /\ CleanupInit
    /\ DirIdle
    /\ fs \in SeqDirs
    /\ orig = fs
    /\ restarts = 0
    /\ toolFailed = FALSE
    /\ Fresh

NextSeq ==
    \/ Discover
    \/ Info
    \/ Select
    \/ Reproject
    \/ GdalWarp
    \/ Rm
    \/ Update
    \/ GdalMerge
    \/ OsRemove

SpecSeq == InitSeq /\ [][NextSeq]_vars

\* C11: the run is strictly sequential: the rm of a tile directly follows its
\* gdalwarp, before any other tile's gdalwarp begins, and gdal_merge.py is
\* invoked only after gdalwarp and rm have run for every tile whose code
\* differs from the predominant one, and no gdalwarp follows it.
C11_StrictlySequential ==
    /\ \A i \in DOMAIN log :
           (IsEntry(i, "gdalwarp") /\ i < Len(log)) =>
               (IsEntry(i + 1, "rm") /\ log[i + 1].path = log[i].path)
    /\ \A m \in DOMAIN log :
           IsEntry(m, "gdal_merge.py") =>
               /\ \A j \in DOMAIN utm_zones :
                      utm_zones[j] # predominant_utm =>
                          \E i \in 1..(m - 2) :
                              /\ IsEntry(i, "gdalwarp") /\ log[i].path = log[j].path
                              /\ IsEntry(i + 1, "rm") /\ log[i + 1].path = log[j].path
               /\ \A i \in DOMAIN log : (i > m) => ~IsEntry(i, "gdalwarp") /\ ~IsEntry(i, "rm")

C11_Witness ==
    /\ \E i, j \in DOMAIN log :
           /\ i + 1 < j
           /\ IsEntry(i, "gdalwarp") /\ IsEntry(i + 1, "rm")
           /\ IsEntry(j, "gdalwarp") /\ IsEntry(j + 1, "rm")
           /\ log[i].path # log[j].path
    /\ \E m \in DOMAIN log : IsEntry(m, "gdal_merge.py")

----------------------------------------------------------------------------
(* The list handed to gdal_merge.py *)

\* C12: when gdal_merge.py is invoked, every path of the list passed to it
\* (the directory as listed again after the reprojections) is a file that
\* carries the predominant code selected in this run.
C12_MergeInputsPredominant ==
    (pc = "merge" /\ DEMin # EmptyDict) =>
        \A i \in DOMAIN merge_inputs(DEMin) :
            \E f \in fs : f.name = merge_inputs(DEMin)[i] /\ f.crs = predominant_utm

C12_Witness ==
    /\ pc = "merge"
    /\ \E i \in DOMAIN log : Reprojected(i) /\ RPath(log[i].path) \in Range(merge_inputs(DEMin))
    /\ \E p \in Names(orig) : p \in Range(merge_inputs(DEMin))

----------------------------------------------------------------------------
(* Order of discovery *)

Reorderings(zones) ==
    { [i \in DOMAIN zones |-> zones[q[i]]] : q \in Perms(DOMAIN zones) }

\* C15: the selected code depends only on how often each code occurs, not on
\* the order of the tiles: every reordering of the list selects the same code.
C15_OrderIndependent ==
    Selected => \A z \in Reorderings(utm_zones) : select_predominant(z) = predominant_utm

\* three tiles of three different codes, listed with the selected code last
C15_Witness ==
    /\ Selected
    /\ Len(utm_zones) = 3
    /\ Cardinality(Range(utm_zones)) = 3
    /\ predominant_utm = utm_zones[3]

----------------------------------------------------------------------------
(* The cleanup cell *)

FullFramesMosaic == <<"FullFrames", "/", "DEM-Mosaic", ".tif">>

\* C13: in a run whose gdal calls all succeeded, after the cleanup DEMs/ and
\* rtc_products/ are gone and the one tile-derived file left is the mosaic,
\* in FullFrames; DEMs/ is never removed unless the mosaic has been copied to
\* FullFrames.
C13_CleanupKeepsMosaic ==
    ~toolFailed =>
        /\ pc = "cleaned" =>
               /\ ~DEMs_dir /\ ~rtc_products /\ fs = {}
               /\ Names(FullFrames) = {FullFramesMosaic}
        /\ ~DEMs_dir => path_exists(FullFrames, FullFramesMosaic)

----------------------------------------------------------------------------
(* The working-directory selection loop *)

wfVars == <<fs, pc, DEM_paths, utm_zones, k, predominant_utm, reproject_indicies,
            DEMin, log, error, orig, restarts, toolFailed>>

\* asfn.handle_old_data returns 1 (delete), 2 (keep) or 3 (pick another name)
Choices == {1, 2, 3}

\* shutil.rmtree(data_dir)
rmtree(dsk, d) == [dsk EXCEPT ![d] = Absent]

\* os.mkdir(data_dir)
mkdir(dsk, d) == [dsk EXCEPT ![d] = Present({})]

InitDir ==
    /\ disk \in Disks
    /\ disk0 = disk
    /\ data_dir = ""
    /\ choice = 0
    /\ dpc = "input"
    /\ fs = {}
    /\ orig = {}
    /\ restarts = 0
    /\ toolFailed = FALSE
    /\ Fresh
    /\ FullFrames = {}
    /\ DEMs_dir = FALSE
    /\ rtc_products = FALSE

\* data_dir = asfn.input_path(...) and the tests on the entered directory
InputPath ==
    /\ dpc = "input"
    /\ \E d \in DirNames :
         /\ data_dir' = d
         /\ IF disk[d].exists
            THEN /\ dpc' = IF disk[d].contents # {} THEN "handle" ELSE "exit"
                 /\ UNCHANGED disk
            ELSE /\ disk' = mkdir(disk, d)
                 /\ dpc' = "exit"
    /\ UNCHANGED <<disk0, choice, wfVars, cleanupVars>>

\* mutant: any answer other than 1 leaves the loop
HandleOldData_break ==
    /\ dpc = "handle"
    /\ \E c \in Choices :
         /\ choice' = c
         /\ disk' = IF c = 1 THEN mkdir(rmtree(disk, data_dir), data_dir) ELSE disk
    /\ dpc' = "exit"
    /\ UNCHANGED <<disk0, data_dir, wfVars, cleanupVars>>

\* choice = asfn.handle_old_data(data_dir, contents) and the branches on it
HandleOldData ==
    /\ dpc = "handle"
    /\ \E c \in Choices :
         /\ choice' = c
         /\ IF c = 1
            THEN /\ disk' = mkdir(rmtree(disk, data_dir), data_dir)
                 /\ dpc' = "exit"
            ELSE IF c = 2
            THEN /\ dpc' = "exit"
                 /\ UNCHANGED disk
            ELSE /\ dpc' = "input"
                 /\ UNCHANGED disk
    /\ UNCHANGED <<disk0, data_dir, wfVars, cleanupVars>>

NextDir ==
    \/ InputPath
    \/ HandleOldData

SpecDir == InitDir /\ [][NextDir]_vars

\* C14: the loop is left only with the chosen directory existing; the old
\* contents of that directory are gone if and only if the answer was 1, they
\* are kept with answer 2, and after any other answer nothing has changed
\* and the loop is still running, so that it is never left through that
\* answer on a directory with old contents.
C14_SelectionLoop ==
    /\ dpc = "exit" =>
           /\ disk[data_dir].exists
           /\ (disk0[data_dir].contents # {} /\ disk[data_dir].contents = {}) <=> (choice = 1)
           /\ choice = 2 => disk[data_dir] = disk0[data_dir]
           /\ choice \notin {1, 2} => disk0[data_dir].contents = {}
           /\ \A d \in DirNames \ {data_dir} : disk[d] = disk0[d]
    /\ dpc # "exit" => disk = disk0

\* the loop has been left with answer 1 on a directory that held old files:
\* they are gone, and the other directory still holds its own
C14_Witness ==
    /\ dpc = "exit"
    /\ choice = 1
    /\ disk0[data_dir].contents = OldFiles
    /\ disk[data_dir] = Present({})
    /\ \E d \in DirNames \ {data_dir} : disk[d].contents # {}

====
